---- MODULE Spec2Model ----
(***************************************************************************)
(* Model of ljdump.py (src/ljdump.py): the incremental synchronisation of  *)
(* a journal's entries and comments, with its checkpoint file ".last",     *)
(* the pickled comment metadata cache, the user map and the per-entry      *)
(* comment collections "C-<jitemid>".                                      *)
(*                                                                         *)
(* Line 200 of the source is a Python 2 print statement; it is modelled as *)
(* the print call it stands for (it has no effect on the state).           *)
(* The userpic download (lines 319-337) and the summary prints come after  *)
(* the last checkpoint write and touch none of the modelled files.         *)
(***************************************************************************)
EXTENDS Integers, Sequences, FiniteSets, TLC

\* ------------------------------------------------------------------ bounds
MaxItems    == 2   \* entry ids, and the longest remote entry changelog
MaxComments == 2   \* highest comment id the remote ever holds
MaxRuns     == 2   \* invocations of ljdump()
MaxFaults   == 1   \* faults the remote raises over all runs
MaxFileLen  == 4   \* length of an arbitrary checkpoint file (SpecLoad)
EntryPageSize   == 2   \* items the remote puts in one syncitems page
CommentPageSize == 1   \* records the remote puts in one comment page

\* --------------------------------------------------------- text and numbers
NL == "\n"
DigitChars == <<"0", "1", "2", "3", "4", "5", "6", "7", "8", "9">>
FileAlphabet == {"T", "1", NL}

IsDigit(c) == \E i \in 1..10 : DigitChars[i] = c
DigitVal(c) == (CHOOSE i \in 1..10 : DigitChars[i] = c) - 1

RECURSIVE Str(_)
\* str(n) of a non-negative integer
Str(n) == IF n < 10 THEN <<DigitChars[n + 1]>>
          ELSE Str(n \div 10) \o <<DigitChars[(n % 10) + 1]>>

RECURSIVE PyInt(_)
\* int(s) of a non-empty string of digits
PyInt(s) == IF Len(s) = 1 THEN DigitVal(s[1])
          ELSE PyInt(SubSeq(s, 1, Len(s) - 1)) * 10 + DigitVal(s[Len(s)])

\* int(s) raises ValueError unless this holds (s has no white space here)
IsNumeric(s) == Len(s) > 0 /\ \A i \in 1..Len(s) : IsDigit(s[i])

\* a Python value that is an int, or a str
Num(n) == [t |-> "int", n |-> n]
Raw(s) == [t |-> "str", s |-> s]
\* f"{v}"
Fmt(v) == IF v.t = "int" THEN Str(v.n) ELSE v.s

\* file.readline(): up to and including the first newline, "" at end of file
NLPos(s) == IF \E i \in 1..Len(s) : s[i] = NL
            THEN CHOOSE i \in 1..Len(s) : s[i] = NL /\ \A j \in 1..(i - 1) : s[j] # NL
            ELSE 0
ReadLine(s) == IF NLPos(s) = 0 THEN s ELSE SubSeq(s, 1, NLPos(s))
AfterLine(s) == SubSeq(s, Len(ReadLine(s)) + 1, Len(s))
\* if s[-1] == '\n': s = s[:len(s)-1]
Chomp(s) == IF Len(s) > 0 /\ s[Len(s)] = NL THEN SubSeq(s, 1, Len(s) - 1) ELSE s

\* ------------------------------------------------------- the checkpoint file
NoFile == [exists |-> FALSE, data |-> <<>>]
FileOf(d) == [exists |-> TRUE, data |-> d]

ZeroCursor == [lastsync |-> <<>>, lastmaxid |-> Num(0)]

\* lines 141-156: the cursor the run starts from
LoadLast(f) ==
    IF ~f.exists THEN ZeroCursor                       \* open() raises
    ELSE LET l1 == ReadLine(f.data) IN
         IF Len(l1) = 0 THEN ZeroCursor                \* lastsync[-1] raises
         ELSE LET ls == Chomp(l1)
                  l2 == Chomp(ReadLine(AfterLine(f.data)))
              IN IF l2 = <<>> THEN [lastsync |-> ls, lastmaxid |-> Num(0)]
                 ELSE IF IsNumeric(l2)
                      THEN [lastsync |-> ls, lastmaxid |-> Num(PyInt(l2))]
                      \* int() raises after lastsync and lastmaxid were bound
                      ELSE [lastsync |-> ls, lastmaxid |-> Raw(l2)]

\* lines 94-97: what writelast leaves in the file when it returns
LastFileText(ls, lm) == ls \o <<NL>> \o Fmt(lm) \o <<NL>>
\* the file after open(..., "w") and after the first f.write reached the disk
TornLastFiles(ls, lm) == {FileOf(<<>>), FileOf(ls \o <<NL>>)}

\* ------------------------------------------------------------- the remote
Kinds == {"L", "O"}
\* comment states: active, deleted
States == {"A", "D"}
Poster == "42"
UserName == "u42"
TimeOf(k) == <<"T">> \o Str(k)
\* position of a lastsync token in the changelog order; -1: not a token
SyncPos(tok) == IF tok = <<>> THEN 0
                ELSE IF \E k \in 1..MaxItems : TimeOf(k) = tok
                     THEN CHOOSE k \in 1..MaxItems : TimeOf(k) = tok
                     ELSE -1
Min(a, b) == IF a < b THEN a ELSE b
\* the syncitems page for a lastsync token: the next items of a changelog of
\* len items, oldest first
SyncPage(tok, len) ==
    LET p == SyncPos(tok)
        n == Min(EntryPageSize, len - p)
    IN [i \in 1..n |-> p + i]

VARIABLES
    \* the remote
    changelog,    \* the kind of each item of the remote's entry changelog, oldest first
    srvComments,  \* the remote's comments, by id: [jitemid, state]
    omitsDeleted, \* whether the remote leaves deleted comments out of body pages
    \* the disk
    lastfile,     \* <Journal>/.last
    entries,      \* item id -> "none" | "full" | "torn": <Journal>/L-<id>
    colls,        \* jitemid -> comments parsed from <Journal>/C-<jitemid>
    metafile,     \* <Journal>/comment.meta
    usermapfile,  \* <Journal>/user.map
    \* the running ljdump()
    pc, lastsync, lastmaxid, page, idx, metacache, usermap, maxid, newmaxid,
    bpage, newentries, newcomments, errors,
    \* observation
    warnings,     \* duplicate warnings printed by this run
    log,          \* the getevents calls of this run: [item, res, saved]
    outcome,      \* how the last run ended ("none" while a run is going)
    runs, faults,
    processed,    \* items fetched and checkpointed by an earlier run
    target,       \* ids the meta pass of this run recorded
    bodyseen,     \* ids the body pass of this run processed
    saved,        \* the cursor handed to the last writelast call
    clean,        \* no fault, no termination and no remote change since this run began
    prev,         \* the disk when this run began, and whether the run before ended clean
    lastcall,     \* the last remote call of this run: [api, arg, slept, got]
    reqs,         \* the comment pages this run has requested and processed: [api, arg]
    prevReqs      \* those of the run before, when it ended before its final write

vars == <<changelog, srvComments, lastfile, entries, colls, metafile,
          usermapfile, pc, lastsync, lastmaxid, page, idx, metacache, usermap,
          maxid, newmaxid, bpage, newentries, newcomments, errors, warnings,
          log, outcome, runs, faults, processed, target, bodyseen, saved,
          clean, prev, omitsDeleted, lastcall, reqs, prevReqs>>

remoteVars == <<changelog, srvComments, omitsDeleted>>
commentFiles == <<colls, metafile, usermapfile>>
entryMem == <<page, idx>>
commentMem == <<metacache, usermap, maxid, newmaxid, bpage>>
counters == <<newentries, newcomments, errors, warnings>>
history == <<log, processed, target, bodyseen, saved, prev, reqs, prevReqs>>

EmptyMap == [x \in {} |-> 0]
\* a remote call: its method, its item id or startid, whether time.sleep(0.2)
\* ran right before it, and how many records came back (-1: it raised)
Call(api, arg, slept, got) ==
    [api |-> api, arg |-> arg, slept |-> slept, got |-> got]
NoCall == Call("none", 0, FALSE, 0)
\* a page of the comment export: get=<api>&startid=<arg>
PageReq(api, arg) == [api |-> api, arg |-> arg]
NoPrev == [valid |-> FALSE, lastfile |-> NoFile,
           entries |-> [k \in 1..MaxItems |-> "none"],
           colls |-> [k \in 1..MaxItems |-> <<>>]]

InitRest ==
    /\ entries = [k \in 1..MaxItems |-> "none"]
    /\ colls = [k \in 1..MaxItems |-> <<>>]
    /\ metafile = EmptyMap
    /\ usermapfile = EmptyMap
    /\ pc = "idle"
    /\ lastsync = <<>>
    /\ lastmaxid = Num(0)
    /\ page = <<>>
    /\ idx = 0
    /\ metacache = EmptyMap
    /\ usermap = EmptyMap
    /\ maxid = Num(0)
    /\ newmaxid = Num(0)
    /\ bpage = <<>>
    /\ newentries = 0
    /\ newcomments = 0
    /\ errors = 0
    /\ warnings = 0
    /\ log = <<>>
    /\ outcome = "none"
    /\ runs = 0
    /\ faults = 0
    /\ processed = {}
    /\ target = {}
    /\ bodyseen = {}
    /\ saved = ZeroCursor
    /\ clean = FALSE
    /\ prev = NoPrev
    /\ lastcall = NoCall
    /\ reqs = {}
    /\ prevReqs = {}

\* the first run finds no checkpoint
Comments == [jitemid : 1..MaxItems, state : States]
\* the comment passes treat every entry alike (lines 294-297 only name the
\* file after the jitemid): the remote's first comment is taken to be on entry 1
FirstOnEntryOne(s) == IF Len(s) = 0 THEN TRUE ELSE s[1].jitemid = 1
Init ==
    /\ \E n \in 0..MaxItems : changelog \in [1..n -> Kinds]
    /\ \E n \in 0..MaxComments : srvComments \in [1..n -> Comments]
    /\ FirstOnEntryOne(srvComments)
    /\ omitsDeleted \in BOOLEAN
    /\ lastfile = NoFile
    /\ InitRest

\* ---------------------------------------------------------- a run's start
\* lines 137-157
LoadCheckpoint ==
    /\ pc = "idle"
    /\ runs < MaxRuns
    /\ runs' = runs + 1
    /\ newentries' = 0
    /\ newcomments' = 0
    /\ errors' = 0
    /\ lastsync' = LoadLast(lastfile).lastsync
    /\ lastmaxid' = LoadLast(lastfile).lastmaxid
    /\ pc' = "login"
    /\ warnings' = 0
    /\ log' = <<>>
    /\ target' = {}
    /\ bodyseen' = {}
    /\ prev' = IF outcome = "done" /\ clean
               THEN [valid |-> TRUE, lastfile |-> lastfile,
                     entries |-> entries, colls |-> colls]
               ELSE NoPrev
    /\ clean' = TRUE
    /\ outcome' = "none"
    /\ UNCHANGED <<remoteVars, lastfile, entries, commentFiles, entryMem,
                   commentMem, faults, processed, saved, lastcall,
                   reqs, prevReqs>>

\* the process ends: sys.exit, an uncaught exception or a signal
EndRun(how) ==
    /\ pc' = "idle"
    /\ outcome' = how
    /\ lastsync' = <<>>
    /\ lastmaxid' = Num(0)
    /\ page' = <<>>
    /\ idx' = 0
    /\ metacache' = EmptyMap
    /\ usermap' = EmptyMap
    /\ maxid' = Num(0)
    /\ newmaxid' = Num(0)
    /\ bpage' = <<>>
    /\ lastcall' = NoCall

\* lines 159-166
Login ==
    /\ pc = "login"
    /\ pc' = "sync"
    /\ lastcall' = Call("login", 0, FALSE, 1)
    /\ UNCHANGED <<remoteVars, lastfile, entries, commentFiles, lastsync,
                   lastmaxid, entryMem, commentMem, counters, outcome, runs,
                   faults, history, clean>>

\* ----------------------------------------------------------- the entry pass
CheckpointedIn(l) == {l[i].item : i \in {j \in 1..Len(l) : l[j].saved}}
Fetch(item, res, sv) == [item |-> item, res |-> res, saved |-> sv]

\* an exception nothing catches, or a signal, ends the process
\* (l is the run's log; what the dead process counted and printed is dropped)
Die(how, l) ==
    /\ EndRun(how)
    /\ clean' = FALSE
    /\ processed' = processed \cup CheckpointedIn(l)
    /\ log' = <<>>
    /\ newentries' = 0
    /\ newcomments' = 0
    /\ errors' = 0
    /\ warnings' = 0
    /\ target' = {}
    /\ bodyseen' = {}
    /\ reqs' = {}
    /\ prevReqs' = reqs

\* lines 168-177, and lines 227-242 once the changelog is drained
SyncItems ==
    /\ pc = "sync"
    /\ SyncPos(lastsync) >= 0
    /\ lastcall' = Call("syncitems", 0, TRUE,
                         Len(SyncPage(lastsync, Len(changelog))))
    /\ LET r == SyncPage(lastsync, Len(changelog)) IN
       IF Len(r) = 0
       THEN /\ pc' = "meta"
            /\ metacache' = metafile
            /\ usermap' = usermapfile
            /\ maxid' = lastmaxid
            /\ UNCHANGED <<page, idx>>
       ELSE /\ page' = r
            /\ idx' = 1
            /\ pc' = "item"
            /\ UNCHANGED <<metacache, usermap, maxid>>
    /\ UNCHANGED <<remoteVars, lastfile, entries, commentFiles, lastsync,
                   lastmaxid, newmaxid, bpage, counters, outcome, runs, faults,
                   history, clean>>

\* login (line 159) or syncitems (line 170) raises: neither call is in a try
CallRaises ==
    /\ pc \in {"login", "sync"}
    /\ faults < MaxFaults
    /\ faults' = faults + 1
    /\ Die("aborted", log)
    /\ UNCHANGED <<remoteVars, lastfile, entries, commentFiles, runs, saved,
                   prev>>

Item == page[idx]

\* the for statement of line 178 takes its next item, or the while loops
NextItem ==
    IF idx < Len(page)
    THEN idx' = idx + 1 /\ page' = page /\ pc' = "item"
    ELSE idx' = 0 /\ page' = <<>> /\ pc' = "sync"

\* (a variant of SaveItem that leaves out the writelast call of line 204)
SaveItemInMemory(item) ==
    /\ lastsync' = TimeOf(item)
    /\ UNCHANGED <<lastfile, saved>>

\* (a variant of SaveItem that saves 0 for lastmaxid)
SaveItemZeroMaxid(item) ==
    /\ lastsync' = TimeOf(item)
    /\ lastfile' = FileOf(LastFileText(TimeOf(item), Num(0)))
    /\ saved' = [lastsync |-> TimeOf(item), lastmaxid |-> Num(0)]

\* lines 203-204
SaveItem(item) ==
    /\ lastsync' = TimeOf(item)
    /\ lastfile' = FileOf(LastFileText(TimeOf(item), lastmaxid))
    /\ saved' = [lastsync |-> TimeOf(item), lastmaxid |-> lastmaxid]

\* line 179 false: the item is no entry
SkipItem ==
    /\ pc = "item"
    /\ changelog[Item] # "L"
    /\ SaveItem(Item)
    /\ NextItem
    /\ UNCHANGED <<remoteVars, entries, commentFiles, lastmaxid, commentMem,
                   counters, log, outcome, runs, faults, processed, target,
                   bodyseen, clean, prev, lastcall, reqs, prevReqs>>

\* lines 181-191, 203-204: getevents returns the event
FetchOk ==
    /\ pc = "item"
    /\ changelog[Item] = "L"
    /\ entries' = [entries EXCEPT ![Item] = "full"]
    /\ newentries' = newentries + 1
    /\ lastcall' = Call("getevents", Item, TRUE, 1)
    /\ log' = Append(log, Fetch(Item, "ok", TRUE))
    /\ SaveItem(Item)
    /\ NextItem
    /\ UNCHANGED <<remoteVars, commentFiles, lastmaxid, commentMem,
                   newcomments, errors, warnings, outcome, runs, faults,
                   processed, target, bodyseen, clean, prev, reqs, prevReqs>>

\* lines 192-194, 203-204: getevents returns no event
FetchEmpty ==
    /\ pc = "item"
    /\ changelog[Item] = "L"
    /\ errors' = errors + 1
    /\ lastcall' = Call("getevents", Item, TRUE, 0)
    /\ log' = Append(log, Fetch(Item, "empty", TRUE))
    /\ SaveItem(Item)
    /\ NextItem
    /\ UNCHANGED <<remoteVars, entries, commentFiles, lastmaxid, commentMem,
                   newentries, newcomments, warnings, outcome, runs, faults,
                   processed, target, bodyseen, clean, prev, reqs, prevReqs>>

\* the faultString of an xmlrpc Fault: the rate limit's, or another
FaultTexts == {"hour", "other"}
\* str(x).find("will be able to continue posting within an hour."), where
\* str(x) is "<Fault 1: '...'>": the index of the text, -1 when absent
FindHour(text) == IF text = "hour" THEN 11 ELSE -1
\* the truth value of an int
Truthy(n) == n # 0

\* lines 195-202: getevents raises a Fault
FetchFault ==
    /\ pc = "item"
    /\ changelog[Item] = "L"
    /\ faults < MaxFaults
    /\ faults' = faults + 1
    /\ errors' = errors + 1
    /\ clean' = FALSE
    /\ lastcall' = Call("getevents", Item, TRUE, -1)
    /\ \E text \in FaultTexts :
         IF Truthy(FindHour(text))
         THEN \* time.sleep(3600); continue: on to the next item of the page
              /\ log' = Append(log, Fetch(Item, text, FALSE))
              /\ UNCHANGED <<lastsync, lastfile, saved>>
         ELSE /\ log' = Append(log, Fetch(Item, text, TRUE))
              /\ SaveItem(Item)
    /\ NextItem
    /\ UNCHANGED <<remoteVars, entries, commentFiles, lastmaxid, commentMem,
                   newentries, newcomments, warnings, outcome, runs, processed,
                   target, bodyseen, prev, reqs, prevReqs>>

\* getevents raises something that is no Fault (ProtocolError, OSError)
FetchRaises ==
    /\ pc = "item"
    /\ changelog[Item] = "L"
    /\ faults < MaxFaults
    /\ faults' = faults + 1
    /\ Die("aborted", Append(log, Fetch(Item, "raise", FALSE)))
    /\ UNCHANGED <<remoteVars, lastfile, entries, commentFiles, runs, saved,
                   prev>>

\* the process is ended in writedump (lines 89-92), or before line 203
KillInWritedump ==
    /\ pc = "item"
    /\ changelog[Item] = "L"
    /\ \E a \in {"torn", "full"} : entries' = [entries EXCEPT ![Item] = a]
    /\ Die("killed", Append(log, Fetch(Item, "ok", FALSE)))
    /\ UNCHANGED <<remoteVars, lastfile, commentFiles, runs, faults, saved,
                   prev>>

\* the process is ended in the writelast of line 204
KillInItemSave ==
    /\ pc = "item"
    /\ \E f \in TornLastFiles(TimeOf(Item), lastmaxid) : lastfile' = f
    /\ saved' = [lastsync |-> TimeOf(Item), lastmaxid |-> lastmaxid]
    /\ IF changelog[Item] = "L"
       THEN \E res \in {"ok", "empty"} :
              entries' = IF res = "ok" THEN [entries EXCEPT ![Item] = "full"]
                         ELSE entries
       ELSE UNCHANGED entries
    /\ Die("killed", log)
    /\ UNCHANGED <<remoteVars, commentFiles, runs, faults, prev>>

\* the process is ended between two steps
Kill ==
    /\ pc # "idle"
    /\ Die("killed", log)
    /\ UNCHANGED <<remoteVars, lastfile, entries, commentFiles, runs, faults,
                   saved, prev>>

\* --------------------------------------------------- the comment meta pass
\* the maxid element of a comment page
ServerMax == Len(srvComments)
\* the ids of the page that starts at startid
Window(startid) ==
    {id \in 1..Len(srvComments) : startid <= id /\ id < startid + CommentPageSize}
SetMax(S, lo) == IF S = {} THEN lo ELSE CHOOSE m \in S : \A x \in S : x <= m
RECURSIVE Ascending(_)
Ascending(S) == IF S = {} THEN <<>>
                ELSE LET m == CHOOSE x \in S : \A y \in S : x <= y
                     IN <<m>> \o Ascending(S \ {m})

\* lines 252-259: the page's records go into the cache
CacheAfter(cache, ids) ==
    [id \in DOMAIN cache \cup ids |->
        IF id \in ids
        THEN [posterid |-> Poster, state |-> srvComments[id].state]
        ELSE cache[id]]
\* lines 260-261
UserMapAfter(um, ids) ==
    IF ids = {} THEN um
    ELSE [u \in DOMAIN um \cup {Poster} |-> UserName]

\* (a variant of MetaPage that dumps the cache and the user map with each page)
MetaPagePersisting ==
    /\ pc = "meta"
    /\ maxid.t = "int"
    /\ LET ids == Window(maxid.n + 1)
           m == SetMax(ids, maxid.n)
       IN /\ metacache' = CacheAfter(metacache, ids)
          /\ usermap' = UserMapAfter(usermap, ids)
          /\ metafile' = metacache'
          /\ usermapfile' = usermap'
          /\ maxid' = Num(IF m > maxid.n THEN m ELSE maxid.n)
          /\ target' = target \cup ids
          /\ lastcall' = Call("comment_meta", maxid.n + 1, TRUE,
                               Cardinality(ids))
          /\ reqs' = reqs \cup {PageReq("comment_meta", maxid.n + 1)}
          /\ pc' = IF maxid'.n >= ServerMax THEN "metadone" ELSE "meta"
    /\ UNCHANGED <<remoteVars, lastfile, entries, colls, lastsync,
                   lastmaxid, entryMem, newmaxid, bpage, counters, log,
                   outcome, runs, faults, processed, bodyseen, saved, clean,
                   prev, prevReqs>>

\* (a variant of MetaPage that leaves the loop after its first page)
MetaPageOnce ==
    /\ pc = "meta"
    /\ maxid.t = "int"
    /\ LET ids == Window(maxid.n + 1)
           m == SetMax(ids, maxid.n)
       IN /\ metacache' = CacheAfter(metacache, ids)
          /\ usermap' = UserMapAfter(usermap, ids)
          /\ maxid' = Num(IF m > maxid.n THEN m ELSE maxid.n)
          /\ target' = target \cup ids
          /\ lastcall' = Call("comment_meta", maxid.n + 1, TRUE,
                               Cardinality(ids))
          /\ reqs' = reqs \cup {PageReq("comment_meta", maxid.n + 1)}
          /\ pc' = "metadone"
    /\ UNCHANGED <<remoteVars, lastfile, entries, commentFiles, lastsync,
                   lastmaxid, entryMem, newmaxid, bpage, counters, log,
                   outcome, runs, faults, processed, bodyseen, saved, clean,
                   prev, prevReqs>>

\* lines 243-247, 252-263: a page of comment metadata
MetaPage ==
    /\ pc = "meta"
    /\ maxid.t = "int"
    /\ LET ids == Window(maxid.n + 1)
           m == SetMax(ids, maxid.n)
       IN /\ metacache' = CacheAfter(metacache, ids)
          /\ usermap' = UserMapAfter(usermap, ids)
          /\ maxid' = Num(IF m > maxid.n THEN m ELSE maxid.n)
          /\ target' = target \cup ids
          /\ lastcall' = Call("comment_meta", maxid.n + 1, TRUE,
                               Cardinality(ids))
          /\ reqs' = reqs \cup {PageReq("comment_meta", maxid.n + 1)}
          /\ pc' = IF maxid'.n >= ServerMax THEN "metadone" ELSE "meta"
    /\ UNCHANGED <<remoteVars, lastfile, entries, commentFiles, lastsync,
                   lastmaxid, entryMem, newmaxid, bpage, counters, log,
                   outcome, runs, faults, processed, bodyseen, saved, clean,
                   prev, prevReqs>>

\* lines 248-251: the request or the parse raises (maxid+1 does, of a str)
MetaFault ==
    /\ pc = "meta"
    /\ \/ maxid.t = "str" /\ UNCHANGED <<faults, lastcall>>
       \/ /\ maxid.t = "int"
          /\ faults < MaxFaults
          /\ faults' = faults + 1
          /\ lastcall' = Call("comment_meta", maxid.n + 1, TRUE, -1)
    /\ clean' = FALSE
    /\ pc' = "metadone"
    /\ UNCHANGED <<remoteVars, lastfile, entries, commentFiles, lastsync,
                   lastmaxid, entryMem, commentMem, counters, log, outcome,
                   runs, processed, target, bodyseen, saved, prev, reqs, prevReqs>>

\* lines 265-272
FinishMeta ==
    /\ pc = "metadone"
    /\ metafile' = metacache
    /\ usermapfile' = usermap
    /\ newmaxid' = maxid
    /\ maxid' = lastmaxid
    /\ pc' = "body"
    /\ UNCHANGED <<remoteVars, lastfile, entries, colls, lastsync, lastmaxid,
                   entryMem, metacache, usermap, bpage, counters, log, outcome,
                   runs, faults, processed, target, bodyseen, saved, clean,
                   prev, lastcall, reqs, prevReqs>>

\* the process is ended in a pickle.dump of lines 265-269: the file it was
\* writing no longer unpickles, and loads as {} (lines 230-240)
KillInMetaDump ==
    /\ pc = "metadone"
    /\ \/ metafile' = EmptyMap /\ UNCHANGED usermapfile
       \/ metafile' = metacache /\ usermapfile' = EmptyMap
    /\ Die("killed", log)
    /\ UNCHANGED <<remoteVars, lastfile, entries, colls, runs, faults, saved,
                   prev>>

\* --------------------------------------------------- the comment body pass
\* what a body page holds: the window, without its deleted comments when
\* the remote leaves those out
BodyPages(startid) ==
    Ascending({id \in Window(startid) :
                  omitsDeleted => srvComments[id].state # "D"})

\* line 312, after the last record of a page
AfterPage(m) == IF m.n >= newmaxid.n THEN "final" ELSE "body"

\* lines 273-276: a page of comment bodies
BodyPage ==
    /\ pc = "body"
    /\ maxid.t = "int"
    /\ LET resp == BodyPages(maxid.n + 1)
       IN /\ bpage' = resp
          /\ lastcall' = Call("comment_body", maxid.n + 1, FALSE, Len(resp))
          /\ reqs' = IF resp = <<>>
                     THEN reqs \cup {PageReq("comment_body", maxid.n + 1)}
                     ELSE reqs
          /\ pc' = IF resp = <<>> THEN AfterPage(maxid) ELSE "bodyrec"
    /\ UNCHANGED <<remoteVars, lastfile, entries, commentFiles, lastsync,
                   lastmaxid, entryMem, metacache, usermap, maxid, newmaxid,
                   counters, log, outcome, runs, faults, processed, target,
                   bodyseen, saved, clean, prev, prevReqs>>

\* lines 277-280: the request or the parse raises (maxid+1 does, of a str)
BodyFault ==
    /\ pc = "body"
    /\ \/ maxid.t = "str" /\ UNCHANGED <<faults, lastcall>>
       \/ /\ maxid.t = "int"
          /\ faults < MaxFaults
          /\ faults' = faults + 1
          /\ lastcall' = Call("comment_body", maxid.n + 1, FALSE, -1)
    /\ clean' = FALSE
    /\ pc' = "final"
    /\ UNCHANGED <<remoteVars, lastfile, entries, commentFiles, lastsync,
                   lastmaxid, entryMem, commentMem, counters, log, outcome,
                   runs, processed, target, bodyseen, saved, prev, reqs, prevReqs>>

\* (a variant of CommentOf that gives every comment the state of a visible one)
CommentOfDefaultState(id, cache, um) ==
    [id |-> Str(id),
     state |-> "A",
     user |-> IF Poster \in DOMAIN um THEN um[Poster] ELSE "-"]

\* lines 284-293: subject, date, body and parentid are copied from the record
CommentOf(id, cache, um) ==
    [id |-> Str(id),
     state |-> cache[id].state,
     user |-> IF Poster \in DOMAIN um THEN um[Poster] ELSE "-"]
\* lines 298-302
Found(coll, id) == \E i \in 1..Len(coll) : PyInt(coll[i].id) = id
\* (a variant of Merge that leaves out the scan of lines 298-303)
MergeUnscanned(coll, id, c) == Append(coll, c)

\* lines 303-308: the collection that is in the file afterwards
Merge(coll, id, c) == IF Found(coll, id) THEN coll ELSE Append(coll, c)

\* lines 281-311: one record of the page
BodyRecord ==
    /\ pc = "bodyrec"
    /\ LET id == Head(bpage)
           j == srvComments[id].jitemid
       IN /\ id \in DOMAIN metacache
          /\ colls' = [colls EXCEPT
                         ![j] = Merge(colls[j], id, CommentOf(id, metacache, usermap))]
          /\ IF Found(colls[j], id)
             THEN warnings' = warnings + 1 /\ UNCHANGED newcomments
             ELSE newcomments' = newcomments + 1 /\ UNCHANGED warnings
          /\ maxid' = IF id > maxid.n THEN Num(id) ELSE maxid
          /\ bodyseen' = bodyseen \cup {id}
          /\ bpage' = Tail(bpage)
          /\ reqs' = IF Tail(bpage) = <<>>
                     THEN reqs \cup {PageReq("comment_body", lastcall.arg)}
                     ELSE reqs
          /\ pc' = IF Tail(bpage) # <<>> THEN "bodyrec" ELSE AfterPage(maxid')
    /\ UNCHANGED <<remoteVars, lastfile, entries, metafile, usermapfile,
                   lastsync, lastmaxid, entryMem, metacache, usermap, newmaxid,
                   newentries, errors, log, outcome, runs, faults, processed,
                   target, saved, clean, prev, lastcall, prevReqs>>

\* line 290: metacache[id] raises KeyError, which nothing catches
BodyKeyError ==
    /\ pc = "bodyrec"
    /\ Head(bpage) \notin DOMAIN metacache
    /\ Die("KeyError", log)
    /\ UNCHANGED <<remoteVars, lastfile, entries, commentFiles, runs, faults,
                   saved, prev>>

\* the process is ended in the write of lines 307-308: the collection file
\* no longer parses, and line 297 takes it for a new one
KillInCollectionWrite ==
    /\ pc = "bodyrec"
    /\ LET id == Head(bpage)
           j == srvComments[id].jitemid
       IN /\ id \in DOMAIN metacache
          /\ ~Found(colls[j], id)
          /\ colls' = [colls EXCEPT ![j] = <<>>]
    /\ Die("killed", log)
    /\ UNCHANGED <<remoteVars, lastfile, entries, metafile, usermapfile, runs,
                   faults, saved, prev>>

\* (a variant of Finish that saves the largest id of the meta pass)
FinishWithMetaMaxid ==
    /\ pc = "final"
    /\ lastfile' = FileOf(LastFileText(lastsync, newmaxid))
    /\ saved' = [lastsync |-> lastsync, lastmaxid |-> newmaxid]
    /\ EndRun("done")
    /\ processed' = processed \cup CheckpointedIn(log)
    /\ reqs' = {}
    /\ prevReqs' = {}
    /\ UNCHANGED <<remoteVars, entries, commentFiles, counters, log, runs,
                   faults, target, bodyseen, clean, prev>>

\* (a variant of Finish that leaves out line 315)
FinishWithoutMaxid ==
    /\ pc = "final"
    /\ lastfile' = FileOf(LastFileText(lastsync, lastmaxid))
    /\ saved' = [lastsync |-> lastsync, lastmaxid |-> lastmaxid]
    /\ EndRun("done")
    /\ processed' = processed \cup CheckpointedIn(log)
    /\ reqs' = {}
    /\ prevReqs' = {}
    /\ UNCHANGED <<remoteVars, entries, commentFiles, counters, log, runs,
                   faults, target, bodyseen, clean, prev>>

\* lines 315-317
Finish ==
    /\ pc = "final"
    /\ lastfile' = FileOf(LastFileText(lastsync, maxid))
    /\ saved' = [lastsync |-> lastsync, lastmaxid |-> maxid]
    /\ EndRun("done")
    /\ processed' = processed \cup CheckpointedIn(log)
    /\ reqs' = {}
    /\ prevReqs' = {}
    /\ UNCHANGED <<remoteVars, entries, commentFiles, counters, log, runs,
                   faults, target, bodyseen, clean, prev>>

\* the process is ended in the writelast of line 317
KillInFinalSave ==
    /\ pc = "final"
    /\ \E f \in TornLastFiles(lastsync, maxid) : lastfile' = f
    /\ saved' = [lastsync |-> lastsync, lastmaxid |-> maxid]
    /\ Die("killed", log)
    /\ UNCHANGED <<remoteVars, entries, commentFiles, runs, faults, prev>>

\* ------------------------------------------------------------- the remote
\* somebody posts a comment while the run is in its comment passes (one
\* posted earlier is in the remote's state when the meta pass starts)
ServerNewComment ==
    /\ pc \in {"meta", "body"}
    /\ Len(srvComments) < MaxComments
    /\ \E c \in Comments : srvComments' = Append(srvComments, c)
    /\ FirstOnEntryOne(srvComments')
    /\ clean' = FALSE
    /\ UNCHANGED <<changelog, omitsDeleted, lastfile, entries, commentFiles,
                   pc, lastsync, lastmaxid, entryMem, commentMem, counters,
                   log, outcome, runs, faults, processed, target, bodyseen,
                   saved, prev, lastcall, reqs, prevReqs>>

\* somebody deletes a comment while the run is in its comment passes
ServerDeleteComment ==
    /\ pc \in {"meta", "body"}
    /\ \E id \in 1..Len(srvComments) :
         /\ srvComments[id].state = "A"
         /\ srvComments' = [srvComments EXCEPT ![id].state = "D"]
    /\ clean' = FALSE
    /\ UNCHANGED <<changelog, omitsDeleted, lastfile, entries, commentFiles,
                   pc, lastsync, lastmaxid, entryMem, commentMem, counters,
                   log, outcome, runs, faults, processed, target, bodyseen,
                   saved, prev, lastcall, reqs, prevReqs>>

\* somebody posts an entry, or edits one, between two runs (one posted
\* during a run is in the changelog that run's or the next run's syncitems
\* calls read)
ServerNewItem ==
    /\ pc = "idle"
    /\ runs >= 1
    /\ Len(changelog) < MaxItems
    /\ \E k \in Kinds : changelog' = Append(changelog, k)
    /\ clean' = FALSE
    /\ UNCHANGED <<srvComments, omitsDeleted, lastfile, entries, commentFiles,
                   pc, lastsync, lastmaxid, entryMem, commentMem, counters,
                   log, outcome, runs, faults, processed, target, bodyseen,
                   saved, prev, lastcall, reqs, prevReqs>>

Next ==
    \/ LoadCheckpoint
    \/ Login
    \/ CallRaises
    \/ SyncItems
    \/ SkipItem
    \/ FetchOk
    \/ FetchEmpty
    \/ FetchFault
    \/ FetchRaises
    \/ KillInWritedump
    \/ KillInItemSave
    \/ Kill
    \/ MetaPage
    \/ MetaFault
    \/ FinishMeta
    \/ KillInMetaDump
    \/ BodyPage
    \/ BodyFault
    \/ BodyRecord
    \/ BodyKeyError
    \/ KillInCollectionWrite
    \/ Finish
    \/ KillInFinalSave
    \/ ServerNewComment
    \/ ServerDeleteComment
    \/ ServerNewItem

Spec == Init /\ [][Next]_vars

\* ------------------------------------------- the loader on arbitrary files
RECURSIVE Texts(_)
\* the strings over FileAlphabet of length n
Texts(n) == IF n = 0 THEN {<<>>}
            ELSE {Append(t, c) : t \in Texts(n - 1), c \in FileAlphabet}

\* a run that finds whatever file is in the journal directory
InitLoad ==
    /\ changelog = [k \in 1..MaxItems |-> "L"]
    /\ srvComments = <<>>
    /\ omitsDeleted = FALSE
    /\ \/ lastfile = NoFile
       \/ \E n \in 0..MaxFileLen : \E t \in Texts(n) : lastfile = FileOf(t)
    /\ InitRest

NextLoad == LoadCheckpoint

SpecLoad == InitLoad /\ [][NextLoad]_vars

\* ------------------------------------------------------------------ claims
InRun == pc # "idle"
Last(l) == l[Len(l)]
\* a step that issues a getevents call and goes on running
Fetched(res) == Len(log') = Len(log) + 1 /\ Last(log').res = res
HasDuplicate(coll) ==
    \E a, b \in 1..Len(coll) : a # b /\ coll[a].id = coll[b].id
\* the order of two cursors: changelog position and comment id
CursorLE(a, b) ==
    /\ SyncPos(a.lastsync) <= SyncPos(b.lastsync)
    /\ a.lastmaxid.n <= b.lastmaxid.n

\* In Spec the checkpoint always holds a changelog token and a number.
CheckpointWellTyped ==
    /\ LoadLast(lastfile).lastmaxid.t = "int"
    /\ SyncPos(LoadLast(lastfile).lastsync) >= 0
    /\ lastmaxid.t = "int" /\ maxid.t = "int" /\ newmaxid.t = "int"

\* C1 (as claimed): a run never issues a detail fetch for an item that an
\* earlier run fetched and checkpointed, however that earlier run was ended.
C1_NoRefetchAfterTermination ==
    InRun => \A i \in 1..Len(log) : log[i].item \notin processed

\* C2 (as claimed): after a rate-limit fault on an item the next detail fetch
\* is for the same item, and until a fetch of that item has completed without
\* that fault the cursor stays before every later item.
C2_RetrySameItem ==
    InRun =>
      \A i \in 1..Len(log) :
        log[i].res = "hour" =>
          /\ i < Len(log) => log[i + 1].item = log[i].item
          /\ (\A k \in (i + 1)..Len(log) :
                log[k].item = log[i].item => log[k].res = "hour")
               => SyncPos(lastsync) <= log[i].item

\* C3: no persisted comment collection holds a comment id twice.
C3_NoDuplicateIds == \A j \in 1..MaxItems : ~HasDuplicate(colls[j])

\* C3's case: a rerun was handed an already merged record and discarded it.
C3_Witness ==
    /\ runs = 2
    /\ warnings > 0
    /\ \E j \in 1..MaxItems : Len(colls[j]) > 0

\* C4 (as claimed): no step moves the persisted cursor back, in either field.
C4_CursorNeverMovesBack ==
    [][CursorLE(LoadLast(lastfile), LoadLast(lastfile'))]_vars

\* C5 (as claimed): whatever happens to a writelast call, the checkpoint
\* afterwards loads as the cursor it held before or as the cursor being saved.
C5_AtomicSave ==
    [][LoadLast(lastfile') \in {LoadLast(lastfile), saved'}]_vars

\* C6: a run that follows a completed run, with no fault and no remote change
\* in either, leaves entry artifacts, collections and checkpoint as they
\* were, fetches no entry and processes no comment record.
C6_Idempotent ==
    (pc = "idle" /\ outcome = "done" /\ clean /\ prev.valid) =>
        /\ entries = prev.entries
        /\ colls = prev.colls
        /\ lastfile = prev.lastfile
        /\ log = <<>>
        /\ newentries = 0
        /\ newcomments = 0
        /\ bodyseen = {}

\* C6's case: the second of two clean runs is over, with an entry artifact
\* and a comment on disk.
C6_Witness ==
    /\ pc = "idle" /\ outcome = "done" /\ clean /\ prev.valid
    /\ \E k \in 1..MaxItems : entries[k] = "full"
    /\ \E j \in 1..MaxItems : Len(colls[j]) > 0

\* a checkpoint file the claim calls unreadable
Unreadable(f) ==
    \/ ~f.exists
    \/ f.data = <<>>
    \/ AfterLine(f.data) = <<>>
    \/ ~IsNumeric(Chomp(ReadLine(AfterLine(f.data))))

\* C7 (as claimed): a missing or unreadable checkpoint loads as the
\* zero-value cursor.
C7_UnreadableLoadsZero ==
    (pc = "login" /\ Unreadable(lastfile)) =>
        [lastsync |-> lastsync, lastmaxid |-> lastmaxid] = ZeroCursor

\* C8 (as claimed): a Fault that is not the rate limit's counts one error,
\* the cursor goes to the item's time and is persisted, and the run goes on.
C8_OtherFaultAdvances ==
    [][Fetched("other") =>
          /\ errors' = errors + 1
          /\ lastsync' = TimeOf(Last(log').item)
          /\ LoadLast(lastfile').lastsync = TimeOf(Last(log').item)
          /\ pc' \in {"item", "sync"}]_vars

\* C9: an empty detail fetch writes no artifact, counts exactly one error and
\* no success, and the cursor goes to the item's time and is persisted; and
\* in a first run whose fetches were L-1: event, L-2: empty, there is the L-1
\* artifact, no L-2 artifact, one error and the cursor token of L-2.
C9_EmptyFetch ==
    /\ [][Fetched("empty") =>
            /\ entries' = entries
            /\ errors' = errors + 1
            /\ newentries' = newentries
            /\ lastsync' = TimeOf(Last(log').item)
            /\ LoadLast(lastfile').lastsync = TimeOf(Last(log').item)]_vars
    /\ [](( /\ runs = 1
            /\ changelog = <<"L", "L">>
            /\ log = <<Fetch(1, "ok", TRUE), Fetch(2, "empty", TRUE)>>) =>
          ( /\ entries[1] = "full"
            /\ entries[2] = "none"
            /\ errors = 1
            /\ newentries = 1
            /\ LoadLast(lastfile).lastsync = TimeOf(2)))

\* C9's case: the first run, over, fetched L-1 with an event and L-2 without.
C9_Witness ==
    /\ runs = 1
    /\ changelog = <<"L", "L">>
    /\ outcome = "done"
    /\ log = <<Fetch(1, "ok", TRUE), Fetch(2, "empty", TRUE)>>
    /\ errors = 1

\* C10 (as claimed): the body pass processes no record outside the ids the
\* meta pass of the same run recorded, and none above the frozen target.
C10_NothingAboveTarget ==
    pc \in {"body", "bodyrec", "final"} =>
        \A id \in bodyseen : id \in target /\ id <= newmaxid.n

\* C11: a body record whose id the cache does not hold ends the run with the
\* KeyError, the record neither skipped nor written; and a collection only
\* changes by gaining the record in hand with the state the cache holds for
\* its id at that moment (or by being torn to nothing by a termination).
C11_MissingMetaFails ==
    [][/\ (pc = "bodyrec" /\ Head(bpage) \notin DOMAIN metacache)
           => /\ pc' = "idle"
              /\ outcome' \in {"KeyError", "killed"}
              /\ colls' = colls
       /\ \A j \in 1..MaxItems :
             (colls'[j] # colls[j] /\ colls'[j] # <<>>)
             => /\ pc = "bodyrec"
                /\ Head(bpage) \in DOMAIN metacache
                /\ srvComments[Head(bpage)].jitemid = j
                /\ Len(colls'[j]) = Len(colls[j]) + 1
                /\ SubSeq(colls'[j], 1, Len(colls[j])) = colls[j]
                /\ Last(colls'[j]).id = Str(Head(bpage))
                /\ Last(colls'[j]).state = metacache[Head(bpage)].state]_vars
\* C11: a run has just ended with the KeyError while an earlier record is on disk
\* with the state of a deleted comment
C11_Witness ==
    /\ pc = "idle"
    /\ outcome = "KeyError"
    /\ \E j \in 1..MaxItems : \E i \in 1..Len(colls[j]) : colls[j][i].state = "D"

\* C12: a remote call that raises in the entry, meta or body pass does not end
\* the run (the passes after it and the final checkpoint write still come),
\* and one that raises on a meta page ends the meta pass only, the error
\* counter unchanged.
C12_FaultsStayInTheirPass ==
    [][/\ (faults' = faults + 1 /\ pc \in {"sync", "item", "meta", "body"})
          => pc' # "idle"
       /\ (faults' = faults + 1 /\ pc = "meta")
          => (pc' = "metadone" /\ errors' = errors)]_vars

\* a step of the meta pass that made its request
MetaCalled ==
    /\ pc = "meta"
    /\ pc' # "idle"
    /\ lastcall'.api = "comment_meta"
    /\ (lastcall' # lastcall \/ pc' # pc)
\* the largest id the meta pass has seen in the ids S, or the loaded cursor
MaxSeen(S) == SetMax(S \cup {lastmaxid.n}, 0)

C14_AtMostOnePageRepeated == Cardinality(reqs \cap prevReqs) <= 1
\* C14 (amended): the cache and the user map are written only at the end of
\* the meta pass and the persisted lastmaxid is raised only by the write after
\* the body pass; every comment page a run requests starts above the lastmaxid
\* it loaded, so a run that follows one ended early requests again the pages
\* above that cursor, however many the ended run had processed.
C14_PersistedOncePerPass ==
    /\ [][/\ (metafile' # metafile \/ usermapfile' # usermapfile)
             => pc = "metadone"
          /\ (/\ lastfile' # lastfile
              /\ LoadLast(lastfile').lastmaxid.n > LoadLast(lastfile).lastmaxid.n)
             => pc = "final"]_vars
    /\ [](InRun => \A r \in reqs : r.arg > lastmaxid.n)
\* C14: a run has requested again every page the run before it, ended early,
\* had processed: two meta pages and a body page
C14_Witness ==
    /\ InRun
    /\ Cardinality(prevReqs) >= 3
    /\ prevReqs \subseteq reqs

\* C15: every changelog page, entry detail, comment metadata page and comment
\* body page is requested right after the fixed delay.
C15_DelayBeforeEveryCall ==
    lastcall.api \in {"syncitems", "getevents", "comment_meta", "comment_body"}
    => lastcall.slept

\* C16: the record the cache holds for an id, in memory and in comment.meta,
\* never changes once it is there.
C16_MetaRecordImmutable ==
    [][/\ \A id \in DOMAIN metacache \cap DOMAIN metacache' :
             metacache'[id] = metacache[id]
       /\ \A id \in DOMAIN metafile \cap DOMAIN metafile' :
             metafile'[id] = metafile[id]]_vars

\* how often the id occurs in the collection
Occurrences(coll, id) ==
    Cardinality({i \in 1..Len(coll) : PyInt(coll[i].id) = id})

\* C17: a body record whose id its parent's collection already holds is
\* dropped: no collection changes, the count of new comments stays, one more
\* duplicate warning is printed, the running maximum id still takes the id in,
\* and the collection holds the id exactly once.
C17_DuplicateDiscarded ==
    [][(/\ pc = "bodyrec"
        /\ pc' # "idle"
        /\ Found(colls[srvComments[Head(bpage)].jitemid], Head(bpage)))
       => /\ colls' = colls
          /\ newcomments' = newcomments
          /\ warnings' = warnings + 1
          /\ maxid'.n = IF Head(bpage) > maxid.n THEN Head(bpage) ELSE maxid.n
          /\ bpage' = Tail(bpage)
          /\ Occurrences(colls'[srvComments[Head(bpage)].jitemid],
                         Head(bpage)) = 1]_vars
\* C17: a run has dropped a record as a duplicate, counted no new comment,
\* and moved its running maximum id past the loaded cursor to that record's id
C17_Witness ==
    /\ InRun
    /\ warnings = 1
    /\ newcomments = 0
    /\ lastmaxid.n = 0
    /\ maxid.n = 1
    /\ bodyseen = {1}
    /\ Occurrences(colls[srvComments[1].jitemid], 1) = 1

\* the comments the remote's body pages deliver
InBodyChangelog(srv, id) == ~(omitsDeleted /\ srv[id].state = "D")
\* every comment of srv at or below the lastmaxid in the checkpoint file f
\* that the body pages deliver is in the collection of its entry in cs
NothingLostBehind(f, cs, srv) ==
    \A id \in 1..Len(srv) :
        (id <= LoadLast(f).lastmaxid.n /\ InBodyChangelog(srv, id))
        => Found(cs[srv[id].jitemid], id)
\* a termination inside the write of a collection file has emptied it
CollectionTorn ==
    \E j \in 1..MaxItems : colls[j] # <<>> /\ colls'[j] = <<>>

\* C18: no step takes a comment from behind the persisted lastmaxid or moves
\* that cursor past a comment no collection holds, whether the body pass
\* completes, ends on a page fault or is terminated between two records; the
\* one step that does is a termination inside the write of a collection file.
C18_NothingLostBehindCursor ==
    [][(/\ <<lastfile, colls, srvComments>>' # <<lastfile, colls, srvComments>>
        /\ ~CollectionTorn
        /\ NothingLostBehind(lastfile, colls, srvComments))
       => NothingLostBehind(lastfile', colls', srvComments')]_vars
\* C18: a run whose body pass ended early has saved the cursor 1 while the
\* remote holds two comments, and comment 1 is in its entry's collection
C18_Witness ==
    /\ pc = "idle"
    /\ outcome = "done"
    /\ faults = 1
    /\ Len(srvComments) = 2
    /\ InBodyChangelog(srvComments, 1)
    /\ LoadLast(lastfile).lastmaxid.n = 1
    /\ Found(colls[srvComments[1].jitemid], 1)

\* C19: a checkpoint write of the entry pass leaves the persisted lastmaxid as
\* it was, the value loaded when the run began; the write after the body pass
\* leaves the persisted lastsync as it was, the token the entry pass reached;
\* and no step of the meta pass writes the checkpoint.
C19_CheckpointFrames ==
    [][/\ (pc = "item" /\ pc' # "idle" /\ lastfile' # lastfile)
          => /\ saved'.lastmaxid = lastmaxid
             /\ LoadLast(lastfile').lastmaxid = lastmaxid
             /\ LoadLast(lastfile').lastmaxid = LoadLast(lastfile).lastmaxid
       /\ (pc = "final" /\ outcome' = "done")
          => /\ saved'.lastsync = lastsync
             /\ LoadLast(lastfile').lastsync = lastsync
             /\ LoadLast(lastfile').lastsync = LoadLast(lastfile).lastsync
       /\ pc \in {"meta", "metadone"}
          => (lastfile' = lastfile /\ saved' = saved)]_vars
\* C19: a run that loaded a lastmaxid above 0 has saved an item of its entry
\* pass
C19_Witness ==
    /\ pc \in {"item", "sync"}
    /\ lastmaxid.n >= 1
    /\ log # <<>>
    /\ Last(log).saved
    /\ LoadLast(lastfile).lastmaxid = lastmaxid
    /\ LoadLast(lastfile).lastsync = TimeOf(Last(log).item)

\* C20: a run with no fault against an unchanged remote leaves the body pass
\* whatever its pages hold: a body page that carries no record is not followed
\* by the same request again, which the remote would answer as before, for ever.
C20_EmptyPageEndsPass ==
    (clean /\ lastcall.api = "comment_body" /\ lastcall.got = 0)
    => pc # "body"

====
